---- MODULE Spec2Model ----
(***************************************************************************)
(* A model of TradingClient (trading_client.go): the per-call pipeline     *)
(* newRequest -> httpClient.Do -> ioutil.ReadAll -> status switch ->       *)
(* json.Unmarshal, for every public method, run by several goroutines that *)
(* share one client.                                                       *)
(*                                                                         *)
(* Byte strings (URLs, bodies) are TLA+ strings.  What Go computes FROM a  *)
(* string (url.Parse, json syntax) is given by tables over the finite set  *)
(* of sample strings the model uses; what Go computes from the parsed      *)
(* value (json.Unmarshal into a Go type) is computed structurally.         *)
(***************************************************************************)
EXTENDS Integers, Sequences, FiniteSets, TLC

(* Number of goroutines that call the shared client concurrently. *)
NumProcs == 2
Procs == 1..NumProcs
(* The goroutines that run under the sequential specification. *)
SeqProcs == {1}

TradingApiURL == "https://api-invest.tinkoff.ru/openapi"
TimeoutSeconds == 5
StatusOK == 200
StatusNotFound == 404

(***************************************************************************)
(* Sample inputs.                                                          *)
(***************************************************************************)
(* A base URL whose path has an escape the default encoding would not      *)
(* produce (url.URL.RawPath is non-empty only for such paths), and one     *)
(* url.Parse rejects ("missing protocol scheme").                          *)
EscApiURL == "http://localhost/open%2Fapi"
BadApiURL == ":no-scheme"
ApiURLs == {TradingApiURL, EscApiURL, BadApiURL}
Tokens == {"t-alice", "t-bob"}

(* String arguments (figi, ticker, order id): a plain one, and one with a  *)
(* control byte, which url.Parse (Go 1.12 and later) rejects when it       *)
(* appears unescaped.                                                      *)
ArgPlain == "BBG000B9XRY4"
ArgCtl == "BBG\n"
StrArgs == {ArgPlain, ArgCtl}
(* Prices: json.Marshal rejects the float64 NaN. *)
Prices == {"150.5", "NaN"}
NoArg == [s |-> "", price |-> "0"]

Statuses == {StatusOK, StatusNotFound, 400, 500}

(***************************************************************************)
(* JSON values: the result of scanning a byte string.                      *)
(***************************************************************************)
JSyntaxError == [k |-> "syntax"]
JNull == [k |-> "null"]
JStr(s) == [k |-> "str", s |-> s]
JNum(n) == [k |-> "num", n |-> n]
JArr(a) == [k |-> "arr", a |-> a]
JObj(o) == [k |-> "obj", o |-> o]

BodyHTML == "<html>502 Bad Gateway</html>"
BodyEmpty == ""
BodyNull == "null"
BodyEmptyObj == "{}"
BodyErrBalance == "{\"trackingId\":\"tr1\",\"status\":\"Error\",\"payload\":{\"message\":\"no money\",\"code\":\"NOT_ENOUGH_BALANCE\"}}"
BodyErrOther == "{\"trackingId\":\"tr2\",\"status\":\"Error\",\"payload\":{\"message\":\"bad order\",\"code\":\"ORDER_ERROR\"}}"
BodyErrBadType == "{\"trackingId\":7,\"status\":\"Error\",\"payload\":{\"message\":\"m\",\"code\":\"c\"}}"
BodyOne == "{\"trackingId\":\"tr3\",\"status\":\"Ok\",\"payload\":{\"figi\":\"BBG1\"}}"
BodyInstruments == "{\"payload\":{\"instruments\":[{\"figi\":\"BBG1\"},{\"figi\":\"BBG2\"}]}}"
BodyPositions == "{\"payload\":{\"positions\":[{\"figi\":\"BBG1\"}]}}"
BodyCurrencies == "{\"payload\":{\"currencies\":[{\"figi\":\"USD\"}]}}"
BodyList == "{\"payload\":[{\"figi\":\"BBG1\"}]}"
BodyPayloadStr == "{\"payload\":\"oops\"}"

Bodies ==
    {BodyHTML, BodyEmpty, BodyNull, BodyEmptyObj, BodyErrBalance, BodyErrOther,
     BodyErrBadType, BodyOne, BodyInstruments, BodyPositions, BodyCurrencies,
     BodyList, BodyPayloadStr}

JItem(figi) == JObj([figi |-> JStr(figi)])

(* The JSON value each sample body scans to (encoding/json's scanner). *)
JSONScan(text) ==
    CASE text = BodyNull -> JNull
      [] text = BodyEmptyObj -> JObj(<<>>)
      [] text = BodyErrBalance ->
            JObj([trackingId |-> JStr("tr1"), status |-> JStr("Error"),
                  payload |-> JObj([message |-> JStr("no money"),
                                    code |-> JStr("NOT_ENOUGH_BALANCE")])])
      [] text = BodyErrOther ->
            JObj([trackingId |-> JStr("tr2"), status |-> JStr("Error"),
                  payload |-> JObj([message |-> JStr("bad order"),
                                    code |-> JStr("ORDER_ERROR")])])
      [] text = BodyErrBadType ->
            JObj([trackingId |-> JNum(7), status |-> JStr("Error"),
                  payload |-> JObj([message |-> JStr("m"), code |-> JStr("c")])])
      [] text = BodyOne ->
            JObj([trackingId |-> JStr("tr3"), status |-> JStr("Ok"),
                  payload |-> JItem("BBG1")])
      [] text = BodyInstruments ->
            JObj([payload |-> JObj([instruments |-> JArr(<<JItem("BBG1"), JItem("BBG2")>>)])])
      [] text = BodyPositions ->
            JObj([payload |-> JObj([positions |-> JArr(<<JItem("BBG1")>>)])])
      [] text = BodyCurrencies ->
            JObj([payload |-> JObj([currencies |-> JArr(<<JItem("USD")>>)])])
      [] text = BodyList -> JObj([payload |-> JArr(<<JItem("BBG1")>>)])
      [] text = BodyPayloadStr -> JObj([payload |-> JStr("oops")])
      [] OTHER -> JSyntaxError

(***************************************************************************)
(* Go types and json.Unmarshal into them.                                  *)
(***************************************************************************)
TString == [t |-> "string"]
TStruct(f) == [t |-> "struct", f |-> f]
TSlice(e) == [t |-> "slice", e |-> e]

(* The element structs (Instrument, Operation, PositionBalance,            *)
(* CurrencyBalance, Order, PlacedLimitOrder) are declared outside this     *)
(* file; they are represented by their instrument key.                     *)
ItemType == TStruct([figi |-> TString])

TradingErrorType ==
    TStruct([trackingId |-> TString, status |-> TString,
             payload |-> TStruct([message |-> TString, code |-> TString])])

RECURSIVE Zero(_)
Zero(ty) ==
    CASE ty.t = "string" -> ""
      [] ty.t = "struct" -> [f \in DOMAIN ty.f |-> Zero(ty.f[f])]
      [] ty.t = "slice" -> <<>>

(* Object keys are the exact json tags; encoding/json's case-insensitive   *)
(* key match and repeated keys are not among the sample bodies.            *)
(* Decoding a scanned value into a Go type: null leaves the zero value, a  *)
(* key the struct lacks is skipped, a field the object lacks stays zero, a *)
(* value of the wrong JSON kind is an UnmarshalTypeError.                  *)
RECURSIVE DecodeValue(_, _)
DecodeValue(ty, j) ==
    IF j.k = "null" THEN [ok |-> TRUE, v |-> Zero(ty)]
    ELSE CASE ty.t = "string" ->
                IF j.k = "str" THEN [ok |-> TRUE, v |-> j.s]
                ELSE [ok |-> FALSE, v |-> Zero(ty)]
           [] ty.t = "struct" ->
                IF j.k # "obj" THEN [ok |-> FALSE, v |-> Zero(ty)]
                ELSE LET r == [f \in DOMAIN ty.f |->
                                 IF f \in DOMAIN j.o THEN DecodeValue(ty.f[f], j.o[f])
                                 ELSE [ok |-> TRUE, v |-> Zero(ty.f[f])]]
                     IN [ok |-> \A f \in DOMAIN ty.f : r[f].ok,
                         v |-> [f \in DOMAIN ty.f |-> r[f].v]]
           [] ty.t = "slice" ->
                IF j.k # "arr" THEN [ok |-> FALSE, v |-> Zero(ty)]
                ELSE LET r == [i \in 1..Len(j.a) |-> DecodeValue(ty.e, j.a[i])]
                     IN [ok |-> \A i \in 1..Len(j.a) : r[i].ok,
                         v |-> [i \in 1..Len(j.a) |-> r[i].v]]

(* json.Unmarshal(data, &v): the syntax check, then the decode. *)
JsonUnmarshal(ty, text) ==
    LET j == JSONScan(text)
    IN IF j.k = "syntax" THEN [ok |-> FALSE, v |-> Zero(ty)] ELSE DecodeValue(ty, j)

(***************************************************************************)
(* Endpoints: the URL each method builds and the envelope it decodes.      *)
(***************************************************************************)
InstrumentLists == {"SearchInstrumentByTicker", "Currencies", "ETFs", "Bonds", "Stocks"}
Endpoints ==
    InstrumentLists \cup
    {"SearchInstrumentByFIGI", "Operations", "PositionsPortfolio",
     "CurrenciesPortfolio", "OrderCancel", "LimitOrder", "Orders"}
PublicOps == Endpoints \cup {"Portfolio"}
PayloadEndpoints == Endpoints \ {"OrderCancel"}

(* The arguments a method takes: a string, and for LimitOrder a price      *)
(* (lots = 10 and operation = "Buy" are fixed).                            *)
Args(o) ==
    CASE o \in {"SearchInstrumentByFIGI", "SearchInstrumentByTicker", "OrderCancel"} ->
            {[s |-> x, price |-> "0"] : x \in StrArgs}
      [] o = "Operations" -> {[s |-> x, price |-> "0"] : x \in StrArgs \cup {""}}
      [] o = "LimitOrder" -> {[s |-> x, price |-> y] : x \in StrArgs, y \in Prices}
      [] OTHER -> {NoArg}

(* url.QueryEscape on the sample arguments. *)
QueryEscape(s) == IF s = ArgCtl THEN "BBG%0A" ELSE s

(* url.Values.Encode: keys sorted, values escaped; figi only when given.   *)
(* from = 2020-01-01T00:00:00Z in RFC3339, interval = "1day".              *)
OperationsQuery(a) ==
    (IF a.s # "" THEN "figi=" \o QueryEscape(a.s) \o "&" ELSE "")
        \o "from=2020-01-01T00%3A00%3A00Z&interval=1day"

(* The path component each method appends to apiURL. *)
RoutePath(e) ==
    CASE e = "SearchInstrumentByFIGI" -> "/market/search/by-figi"
      [] e = "SearchInstrumentByTicker" -> "/market/search/by-ticker"
      [] e = "Currencies" -> "/market/currencies"
      [] e = "ETFs" -> "/market/etfs"
      [] e = "Bonds" -> "/market/bonds"
      [] e = "Stocks" -> "/market/stocks"
      [] e = "Operations" -> "/operations"
      [] e = "PositionsPortfolio" -> "/portfolio"
      [] e = "CurrenciesPortfolio" -> "/portfolio/currencies"
      [] e = "OrderCancel" -> "/orders/cancel"
      [] e = "LimitOrder" -> "/orders/limit-order"
      [] e = "Orders" -> "/orders"

(* The query string each method appends, "?" included. *)
RouteQuery(e, a) ==
    CASE e = "SearchInstrumentByFIGI" -> "?figi=" \o a.s
      [] e = "SearchInstrumentByTicker" -> "?ticker=" \o a.s
      [] e = "Operations" -> "?" \o OperationsQuery(a)
      [] e = "OrderCancel" -> "?orderId=" \o a.s
      [] e = "LimitOrder" -> "?figi=" \o a.s
      [] OTHER -> ""

(* path := c.apiURL + "..." *)
PathOf(api, e, a) == api \o RoutePath(e) \o RouteQuery(e, a)

Method(e) == IF e \in {"OrderCancel", "LimitOrder"} THEN "POST" ELSE "GET"

(* url.Parse as http.NewRequest applies it, tabulated over every string    *)
(* PathOf can build: it fails on a missing scheme and on a control byte,   *)
(* and sets RawPath only when the path carries a non-default escape.       *)
Targets == {[api |-> u, e |-> e, a |-> a] : u \in ApiURLs, e \in Endpoints, a \in UNION {Args(x) : x \in Endpoints}}
URLParse(str) ==
    LET t == CHOOSE t \in Targets : t.a \in Args(t.e) /\ PathOf(t.api, t.e, t.a) = str
        ctl == t.e # "Operations" /\ t.a.s = ArgCtl
    IN [ok |-> t.api # BadApiURL /\ ~ctl,
        cause |-> IF t.api = BadApiURL THEN "parse: missing protocol scheme"
                  ELSE IF ctl THEN "net/url: invalid control character in URL"
                  ELSE "",
        url |-> [String |-> str,
                 RawPath |-> IF t.api = EscApiURL THEN "/open%2Fapi" \o RoutePath(t.e) ELSE ""]]

(* json.Marshal of LimitOrder's payload struct. *)
MarshalLimitOrder(a) ==
    IF a.price = "NaN"
    THEN [ok |-> FALSE, cause |-> "json: unsupported value: NaN", text |-> ""]
    ELSE [ok |-> TRUE, cause |-> "",
          text |-> "{\"lots\":10,\"operation\":\"Buy\",\"price\":" \o a.price \o "}"]

(* fmt's %+v of the payload struct. *)
FormatPayload(a) == "{Lots:10 Operation:Buy Price:" \o a.price \o "}"

(* The envelope type each endpoint declares as `response`. *)
ResponseType(e) ==
    CASE e \in {"SearchInstrumentByFIGI", "LimitOrder"} -> TStruct([payload |-> ItemType])
      [] e \in InstrumentLists -> TStruct([payload |-> TStruct([instruments |-> TSlice(ItemType)])])
      [] e = "PositionsPortfolio" -> TStruct([payload |-> TStruct([positions |-> TSlice(ItemType)])])
      [] e = "CurrenciesPortfolio" -> TStruct([payload |-> TStruct([currencies |-> TSlice(ItemType)])])
      [] e \in {"Operations", "Orders"} -> TStruct([payload |-> TSlice(ItemType)])

(* The part of the decoded envelope each endpoint returns. *)
Extract(e, v) ==
    CASE e \in InstrumentLists -> v.payload.instruments
      [] e = "PositionsPortfolio" -> v.payload.positions
      [] e = "CurrenciesPortfolio" -> v.payload.currencies
      [] OTHER -> v.payload

(* The value each endpoint returns next to a non-nil error. *)
ZeroVal(e) ==
    CASE e \in {"SearchInstrumentByFIGI", "LimitOrder"} -> Zero(ItemType)
      [] OTHER -> <<>>
ZeroPortfolio == [Currencies |-> <<>>, Positions |-> <<>>]

(***************************************************************************)
(* Errors.                                                                 *)
(***************************************************************************)
Nil == [kind |-> "nil", cause |-> "", fmt |-> "", url |-> "", code |-> 0,
        body |-> "", te |-> Zero(TradingErrorType)]
ErrNotFound == [Nil EXCEPT !.kind = "ErrNotFound", !.fmt = "Not found"]
(* errors.Errorf: a new error made of the message only. *)
Errorf(fmt, url, code, body) ==
    [Nil EXCEPT !.kind = "fundamental", !.fmt = fmt, !.url = url, !.code = code, !.body = body]
(* errors.Wrapf: the message in front of the cause it keeps. *)
Wrapf(cause, fmt, url, body) ==
    [Nil EXCEPT !.kind = "withMessage", !.cause = cause, !.fmt = fmt, !.url = url, !.body = body]
(* A TradingError that is not the one the body was unmarshalled into. *)
TradingErrorDropped(v) == [Nil EXCEPT !.kind = "TradingError"]
TradingError(v) == [Nil EXCEPT !.kind = "TradingError", !.te = v]
(* func (t TradingError) NotEnoughBalance() bool *)
NotEnoughBalance(err) == err.te.payload.code = "NOT_ENOUGH_BALANCE"

(***************************************************************************)
(* State.                                                                  *)
(***************************************************************************)
VARIABLES
    config,     \* the TradingClient: token, apiURL, httpClient.Timeout
    pc,         \* where each goroutine is in its call
    op,         \* the public method it called
    arg,        \* the arguments it passed
    ep,         \* the endpoint method it is in
    path,       \* local `path`
    bb,         \* local `bb`: the marshalled request body
    req,        \* local `req`
    resp,       \* doRequest's `resp`
    open,       \* whether resp.Body is open
    dr,         \* what doRequest returned: body, err
    positions,  \* Portfolio's local `positions`
    result,     \* what the public method returned
    trace,      \* the library calls the goroutine made during its call
    io          \* the exchanges the transport saw during the call

vars == <<config, pc, op, arg, ep, path, bb, req, resp, open, dr, positions,
          result, trace, io>>

NoReq == [method |-> "", url |-> [String |-> "", RawPath |-> ""],
          header |-> [ContentType |-> "", Authorization |-> ""], body |-> ""]
NoResp == [neterr |-> "", status |-> 0, body |-> "", readerr |-> ""]
NoDr == [isNil |-> TRUE, body |-> "", err |-> Nil]
NoResult == [val |-> <<>>, err |-> Nil]

(* What the network can answer to one request: a transport failure, a      *)
(* response whose body cannot be read to the end, or a status and a body.  *)
Outcomes(statuses, bodies) ==
    {[neterr |-> "dial tcp: connection refused", status |-> 0, body |-> "", readerr |-> ""]}
    \cup {[neterr |-> "", status |-> s, body |-> "", readerr |-> "unexpected EOF"] : s \in statuses}
    \cup {[neterr |-> "", status |-> s, body |-> b, readerr |-> ""] : s \in statuses, b \in bodies}

(* NewTradingClientCustom(token, apiURL) *)
NewTradingClientCustom(token, apiURL) ==
    [token |-> token, apiURL |-> apiURL, timeout |-> TimeoutSeconds]
(* NewTradingClient(token) *)
NewTradingClient(token) == NewTradingClientCustom(token, TradingApiURL)

Idle ==
    /\ pc = [p \in Procs |-> "idle"]
    /\ op = [p \in Procs |-> ""]
    /\ arg = [p \in Procs |-> NoArg]
    /\ ep = [p \in Procs |-> ""]
    /\ path = [p \in Procs |-> ""]
    /\ bb = [p \in Procs |-> ""]
    /\ req = [p \in Procs |-> NoReq]
    /\ resp = [p \in Procs |-> NoResp]
    /\ open = [p \in Procs |-> FALSE]
    /\ dr = [p \in Procs |-> NoDr]
    /\ positions = [p \in Procs |-> <<>>]
    /\ result = [p \in Procs |-> NoResult]
    /\ trace = [p \in Procs |-> <<>>]
    /\ io = [p \in Procs |-> <<>>]

Init ==
    /\ config \in {NewTradingClientCustom(t, u) : t \in Tokens, u \in ApiURLs}
    /\ Idle

InitConc ==
    /\ config = NewTradingClient("t-alice")
    /\ Idle

(* newRequest without the Authorization header. *)
RequestHeaderNoAuth(token) ==
    [ContentType |-> "application/json", Authorization |-> ""]

(* newRequest: the two req.Header.Set calls. *)
RequestHeader(token) ==
    [ContentType |-> "application/json", Authorization |-> "Bearer " \o token]

(* The switch without its StatusNotFound case. *)
StatusClassNo404(status) ==
    CASE status = StatusOK -> "ok"
      [] OTHER -> "default"

(* doRequest: the cases of the switch on resp.StatusCode. *)
StatusClass(status) ==
    CASE status = StatusOK -> "ok"
      [] status = StatusNotFound -> "notFound"
      [] OTHER -> "default"

(* The generic error without the raw body. *)
BadResponseNoBody(r, status, body) ==
    Errorf("bad response to %s code=%d", r.url.RawPath, status, "")

(* doRequest: the error of the default case when the body is no TradingError. *)
BadResponse(r, status, body) ==
    Errorf("bad response to %s code=%d, body=%s", r.url.RawPath, status, body)

(* The decode error without the raw body. *)
DecodeErrorNoBody(cause, url, body) ==
    Wrapf(cause, "can't unmarshal response to %s", url, "")

(* The endpoints' error when the envelope does not unmarshal. *)
DecodeError(cause, url, body) ==
    Wrapf(cause, "can't unmarshal response to %s, respBody=%s", url, body)

(* A return that sends the request again when the transport failed. *)
RetRetry(p, val, err) ==
    IF err.fmt = "can't do request to %s"
    THEN /\ pc' = [pc EXCEPT ![p] = "do"]
         /\ result' = result
    ELSE /\ result' = [result EXCEPT ![p] = [val |-> val, err |-> err]]
         /\ pc' = [pc EXCEPT ![p] = IF op[p] = "Portfolio" THEN "portfolio" ELSE "done"]

(* An endpoint method returns (val, err) to its caller. *)
Ret(p, val, err) ==
    /\ result' = [result EXCEPT ![p] = [val |-> val, err |-> err]]
    /\ pc' = [pc EXCEPT ![p] = IF op[p] = "Portfolio" THEN "portfolio" ELSE "done"]

(***************************************************************************)
(* Actions.                                                                *)
(***************************************************************************)
(* A goroutine enters public method o: the endpoint builds its path. *)
Call(p, o, a) ==
    /\ pc[p] = "idle"
    /\ LET e == IF o = "Portfolio" THEN "PositionsPortfolio" ELSE o
       IN /\ ep' = [ep EXCEPT ![p] = e]
          /\ path' = [path EXCEPT ![p] = PathOf(config.apiURL, e, a)]
          /\ pc' = [pc EXCEPT ![p] = IF Method(e) = "POST" THEN "marshal" ELSE "newRequest"]
    /\ op' = [op EXCEPT ![p] = o]
    /\ arg' = [arg EXCEPT ![p] = a]
    /\ UNCHANGED <<config, bb, req, resp, open, dr, positions, result, trace, io>>

(* LimitOrder marshals its payload; postJSONThrow is given a nil body and  *)
(* marshals nothing.                                                       *)
Marshal(p) ==
    /\ pc[p] = "marshal"
    /\ IF ep[p] = "LimitOrder"
       THEN LET m == MarshalLimitOrder(arg[p])
            IN /\ trace' = [trace EXCEPT ![p] = Append(@, "json.Marshal")]
               /\ IF ~m.ok
                  THEN /\ Ret(p, ZeroVal(ep[p]),
                              Errorf("can't marshal request to %s body=%+v", path[p], 0,
                                     FormatPayload(arg[p])))
                       /\ bb' = bb
                  ELSE /\ bb' = [bb EXCEPT ![p] = m.text]
                       /\ pc' = [pc EXCEPT ![p] = "newRequest"]
                       /\ result' = result
       ELSE /\ bb' = [bb EXCEPT ![p] = ""]
            /\ pc' = [pc EXCEPT ![p] = "newRequest"]
            /\ UNCHANGED <<result, trace>>
    /\ UNCHANGED <<config, op, arg, ep, path, req, resp, open, dr, positions, io>>

(* newRequest that stores the header value in the client's token field. *)
NewRequestStoresToken(p) ==
    /\ pc[p] = "newRequest"
    /\ trace' = [trace EXCEPT ![p] = Append(@, "http.NewRequest")]
    /\ LET u == URLParse(path[p])
       IN IF ~u.ok
          THEN /\ Ret(p, ZeroVal(ep[p]),
                      Errorf("can't create http request to %s", path[p], 0, ""))
               /\ UNCHANGED <<req, config>>
          ELSE /\ config' = [config EXCEPT !.token = "Bearer " \o @]
               /\ req' = [req EXCEPT ![p] =
                            [method |-> Method(ep[p]), url |-> u.url,
                             header |-> [ContentType |-> "application/json",
                                         Authorization |-> config'.token],
                             body |-> bb[p]]]
               /\ pc' = [pc EXCEPT ![p] = "do"]
               /\ result' = result
    /\ UNCHANGED <<op, arg, ep, path, bb, resp, open, dr, positions, io>>

(* c.newRequest(method, path, body), and the caller's check of its error. *)
NewRequest(p) ==
    /\ pc[p] = "newRequest"
    /\ trace' = [trace EXCEPT ![p] = Append(@, "http.NewRequest")]
    /\ LET u == URLParse(path[p])
       IN IF ~u.ok
          THEN /\ Ret(p, ZeroVal(ep[p]),
                      Errorf("can't create http request to %s", path[p], 0, ""))
               /\ req' = req
          ELSE /\ req' = [req EXCEPT ![p] =
                            [method |-> Method(ep[p]), url |-> u.url,
                             header |-> RequestHeader(config.token),
                             body |-> bb[p]]]
               /\ pc' = [pc EXCEPT ![p] = "do"]
               /\ result' = result
    /\ UNCHANGED <<config, op, arg, ep, path, bb, resp, open, dr, positions, io>>

(* doRequest: c.httpClient.Do(req). *)
Do(p, out) ==
    /\ pc[p] = "do"
    /\ trace' = [trace EXCEPT ![p] = Append(@, "Do")]
    /\ io' = [io EXCEPT ![p] = Append(@, [req |-> req[p], out |-> out])]
    /\ IF out.neterr # ""
       THEN /\ dr' = [dr EXCEPT ![p] =
                        [isNil |-> TRUE, body |-> "",
                         err |-> Wrapf(out.neterr, "can't do request to %s",
                                       req[p].url.RawPath, "")]]
            /\ pc' = [pc EXCEPT ![p] = "decode"]
            /\ UNCHANGED <<resp, open>>
       ELSE /\ resp' = [resp EXCEPT ![p] = out]
            /\ open' = [open EXCEPT ![p] = TRUE]
            /\ pc' = [pc EXCEPT ![p] = "readAll"]
            /\ dr' = dr
    /\ UNCHANGED <<config, op, arg, ep, path, bb, req, positions, result>>

(* ReadAll with the Close after the read instead of deferred. *)
ReadAllNoDefer(p) ==
    /\ pc[p] = "readAll"
    /\ trace' = [trace EXCEPT ![p] = Append(@, "ReadAll")]
    /\ IF resp[p].readerr # ""
       THEN /\ dr' = [dr EXCEPT ![p] =
                        [isNil |-> TRUE, body |-> "",
                         err |-> Wrapf(resp[p].readerr, "can't read response body to %s",
                                       req[p].url.RawPath, "")]]
            /\ pc' = [pc EXCEPT ![p] = "decode"]
       ELSE /\ pc' = [pc EXCEPT ![p] = "classify"]
            /\ dr' = dr
    /\ UNCHANGED <<config, op, arg, ep, path, bb, req, resp, open, positions, result, io>>

(* doRequest: ioutil.ReadAll(resp.Body); the deferred Close runs when the  *)
(* read fails and doRequest returns.                                        *)
ReadAll(p) ==
    /\ pc[p] = "readAll"
    /\ trace' = [trace EXCEPT ![p] = Append(@, "ReadAll")]
    /\ IF resp[p].readerr # ""
       THEN /\ dr' = [dr EXCEPT ![p] =
                        [isNil |-> TRUE, body |-> "",
                         err |-> Wrapf(resp[p].readerr, "can't read response body to %s",
                                       req[p].url.RawPath, "")]]
            /\ open' = [open EXCEPT ![p] = FALSE]
            /\ pc' = [pc EXCEPT ![p] = "decode"]
       ELSE /\ pc' = [pc EXCEPT ![p] = "classify"]
            /\ UNCHANGED <<dr, open>>
    /\ UNCHANGED <<config, op, arg, ep, path, bb, req, resp, positions, result, io>>

(* doRequest: the switch on resp.StatusCode, and the return, at which the  *)
(* deferred resp.Body.Close() runs.                                        *)
Classify(p) ==
    /\ pc[p] = "classify"
    /\ LET body == resp[p].body
           te == JsonUnmarshal(TradingErrorType, body)
           class == StatusClass(resp[p].status)
       IN CASE class = "ok" ->
                 /\ dr' = [dr EXCEPT ![p] = [isNil |-> FALSE, body |-> body, err |-> Nil]]
                 /\ trace' = [trace EXCEPT ![p] = Append(@, "switch")]
            [] class = "notFound" ->
                 /\ dr' = [dr EXCEPT ![p] = [isNil |-> TRUE, body |-> "", err |-> ErrNotFound]]
                 /\ trace' = [trace EXCEPT ![p] = Append(@, "switch")]
            [] class = "default" ->
                 /\ dr' = [dr EXCEPT ![p] =
                             [isNil |-> TRUE, body |-> "",
                              err |-> IF te.ok THEN TradingError(te.v)
                                      ELSE BadResponse(req[p], resp[p].status, body)]]
                 /\ trace' = [trace EXCEPT ![p] =
                                @ \o <<"switch", "json.Unmarshal(TradingError)">>]
    /\ open' = [open EXCEPT ![p] = FALSE]
    /\ pc' = [pc EXCEPT ![p] = "decode"]
    /\ UNCHANGED <<config, op, arg, ep, path, bb, req, resp, positions, result, io>>

(* The endpoint after doRequest returned: it forwards the error, or        *)
(* unmarshals the envelope and returns its payload; postJSONThrow returns  *)
(* doRequest's error as it is.                                             *)
Decode(p) ==
    /\ pc[p] = "decode"
    /\ IF ep[p] = "OrderCancel"
       THEN /\ Ret(p, <<>>, dr[p].err)
            /\ trace' = trace
       ELSE IF dr[p].err # Nil
       THEN /\ Ret(p, ZeroVal(ep[p]), dr[p].err)
            /\ trace' = trace
       ELSE LET u == JsonUnmarshal(ResponseType(ep[p]), dr[p].body)
            IN /\ trace' = [trace EXCEPT ![p] = Append(@, "json.Unmarshal(response)")]
               /\ IF ~u.ok
                  THEN Ret(p, ZeroVal(ep[p]),
                           DecodeError("json: cannot unmarshal", path[p], dr[p].body))
                  ELSE Ret(p, Extract(ep[p], u.v), Nil)
    /\ UNCHANGED <<config, op, arg, ep, path, bb, req, resp, open, dr, positions, io>>

(* Portfolio that keeps the positions when the currencies request fails. *)
PortfolioPartial(p) ==
    /\ pc[p] = "portfolio"
    /\ IF result[p].err # Nil
       THEN /\ result' = [result EXCEPT ![p] =
                            [val |-> [Currencies |-> <<>>, Positions |-> positions[p]],
                             err |-> result[p].err]]
            /\ pc' = [pc EXCEPT ![p] = "done"]
            /\ UNCHANGED <<ep, path, positions>>
       ELSE IF ep[p] = "PositionsPortfolio"
       THEN /\ positions' = [positions EXCEPT ![p] = result[p].val]
            /\ ep' = [ep EXCEPT ![p] = "CurrenciesPortfolio"]
            /\ path' = [path EXCEPT ![p] = PathOf(config.apiURL, "CurrenciesPortfolio", arg[p])]
            /\ pc' = [pc EXCEPT ![p] = "newRequest"]
            /\ result' = [result EXCEPT ![p] = NoResult]
       ELSE /\ result' = [result EXCEPT ![p] =
                            [val |-> [Currencies |-> result[p].val, Positions |-> positions[p]],
                             err |-> Nil]]
            /\ pc' = [pc EXCEPT ![p] = "done"]
            /\ UNCHANGED <<ep, path, positions>>
    /\ UNCHANGED <<config, op, arg, bb, req, resp, open, dr, trace, io>>

(* Portfolio, after PositionsPortfolio or CurrenciesPortfolio returned. *)
Portfolio(p) ==
    /\ pc[p] = "portfolio"
    /\ IF result[p].err # Nil
       THEN /\ result' = [result EXCEPT ![p] = [val |-> ZeroPortfolio, err |-> result[p].err]]
            /\ pc' = [pc EXCEPT ![p] = "done"]
            /\ UNCHANGED <<ep, path, positions>>
       ELSE IF ep[p] = "PositionsPortfolio"
       THEN /\ positions' = [positions EXCEPT ![p] = result[p].val]
            /\ ep' = [ep EXCEPT ![p] = "CurrenciesPortfolio"]
            /\ path' = [path EXCEPT ![p] = PathOf(config.apiURL, "CurrenciesPortfolio", arg[p])]
            /\ pc' = [pc EXCEPT ![p] = "newRequest"]
            /\ result' = [result EXCEPT ![p] = NoResult]
       ELSE /\ result' = [result EXCEPT ![p] =
                            [val |-> [Currencies |-> result[p].val, Positions |-> positions[p]],
                             err |-> Nil]]
            /\ pc' = [pc EXCEPT ![p] = "done"]
            /\ UNCHANGED <<ep, path, positions>>
    /\ UNCHANGED <<config, op, arg, bb, req, resp, open, dr, trace, io>>

(* The caller takes the result; the goroutine is free for its next call. *)
Return(p) ==
    /\ pc[p] = "done"
    /\ pc' = [pc EXCEPT ![p] = "idle"]
    /\ op' = [op EXCEPT ![p] = ""]
    /\ arg' = [arg EXCEPT ![p] = NoArg]
    /\ ep' = [ep EXCEPT ![p] = ""]
    /\ path' = [path EXCEPT ![p] = ""]
    /\ bb' = [bb EXCEPT ![p] = ""]
    /\ req' = [req EXCEPT ![p] = NoReq]
    /\ resp' = [resp EXCEPT ![p] = NoResp]
    /\ dr' = [dr EXCEPT ![p] = NoDr]
    /\ positions' = [positions EXCEPT ![p] = <<>>]
    /\ result' = [result EXCEPT ![p] = NoResult]
    /\ trace' = [trace EXCEPT ![p] = <<>>]
    /\ io' = [io EXCEPT ![p] = <<>>]
    /\ UNCHANGED <<config, open>>

(***************************************************************************)
(* Specifications.                                                         *)
(***************************************************************************)
(* One goroutine, every method, every sample input. *)
Next ==
    \E p \in SeqProcs :
        \/ \E o \in PublicOps : \E a \in Args(o) : Call(p, o, a)
        \/ Marshal(p)
        \/ NewRequest(p)
        \/ \E out \in Outcomes(Statuses, Bodies) : Do(p, out)
        \/ ReadAll(p)
        \/ Classify(p)
        \/ Decode(p)
        \/ Portfolio(p)
        \/ Return(p)

Spec == Init /\ [][Next]_vars

(* Several goroutines on one client built by NewTradingClient, a smaller   *)
(* choice of methods and answers.                                          *)
ConcOps == {"OrderCancel", "Portfolio"}
ConcArgs(o) == IF o = "OrderCancel" THEN {[s |-> ArgPlain, price |-> "0"]} ELSE {NoArg}
ConcOutcomes == Outcomes({StatusOK, 500}, {BodyEmptyObj})

NextConc ==
    \E p \in Procs :
        \/ \E o \in ConcOps : \E a \in ConcArgs(o) : Call(p, o, a)
        \/ Marshal(p)
        \/ NewRequest(p)
        \/ \E out \in ConcOutcomes : Do(p, out)
        \/ ReadAll(p)
        \/ Classify(p)
        \/ Decode(p)
        \/ Portfolio(p)
        \/ Return(p)

SpecConc == InitConc /\ [][NextConc]_vars

(***************************************************************************)
(* Properties.                                                             *)
(***************************************************************************)
(* The answer to the goroutine's latest request. *)
LastOut(p) == io[p][Len(io[p])].out
(* doRequest has returned from the switch: the latest exchange gave a      *)
(* response whose body was read.                                           *)
Classified(p) ==
    /\ pc[p] \in {"decode", "portfolio", "done"}
    /\ Len(io[p]) > 0
    /\ LastOut(p).neterr = ""
    /\ LastOut(p).readerr = ""
(* C1: when the exchange completes with status 404, doRequest returns      *)
(* ErrNotFound and a nil body whatever the body holds, the method returns  *)
(* that error, and json.Unmarshal was not called on the body.              *)
C1_NotFoundSentinel ==
    \A p \in Procs :
        (Classified(p) /\ LastOut(p).status = StatusNotFound) =>
            /\ dr[p].err = ErrNotFound
            /\ dr[p].isNil
            /\ pc[p] \in {"portfolio", "done"} => result[p].err = ErrNotFound
            /\ LET t == trace[p]
               IN /\ Len(t) >= 3
                  /\ SubSeq(t, Len(t) - 2, Len(t)) = <<"Do", "ReadAll", "switch">>

C1_Witness ==
    \E p \in Procs :
        /\ pc[p] = "done"
        /\ Classified(p)
        /\ LastOut(p).status = StatusNotFound
        /\ LastOut(p).body = BodyErrBalance
        /\ result[p].err = ErrNotFound

(* A well-formed broker error envelope: an object with string trackingId   *)
(* and status and an object payload with string message and code.          *)
WellFormedEnvelope(j) ==
    /\ j.k = "obj"
    /\ {"trackingId", "status", "payload"} \subseteq DOMAIN j.o
    /\ j.o.trackingId.k = "str"
    /\ j.o.status.k = "str"
    /\ j.o.payload.k = "obj"
    /\ {"message", "code"} \subseteq DOMAIN j.o.payload.o
    /\ j.o.payload.o.message.k = "str"
    /\ j.o.payload.o.code.k = "str"

OtherStatus(p) == LastOut(p).status \notin {StatusOK, StatusNotFound}

(* C2: a response that is neither 200 nor 404 and whose body is a          *)
(* well-formed broker error envelope yields a TradingError whose           *)
(* trackingId, status, payload.message and payload.code are the values of  *)
(* the JSON, and a nil body.                                               *)
C2_TradingErrorFields ==
    \A p \in Procs :
        (Classified(p) /\ OtherStatus(p) /\ WellFormedEnvelope(JSONScan(LastOut(p).body))) =>
            LET j == JSONScan(LastOut(p).body)
            IN /\ dr[p].err.kind = "TradingError"
               /\ dr[p].err.te.trackingId = j.o.trackingId.s
               /\ dr[p].err.te.status = j.o.status.s
               /\ dr[p].err.te.payload.message = j.o.payload.o.message.s
               /\ dr[p].err.te.payload.code = j.o.payload.o.code.s
               /\ dr[p].isNil

C2_Witness ==
    \E p \in Procs :
        /\ pc[p] = "decode"
        /\ Classified(p)
        /\ LastOut(p).status = 400
        /\ LastOut(p).body = BodyErrBalance
        /\ dr[p].err.kind = "TradingError"
        /\ NotEnoughBalance(dr[p].err)

(* C3: a response that is neither 200 nor 404 and whose body does not      *)
(* unmarshal into a TradingError yields a generic error that carries the   *)
(* status code and the raw body text, and the method returns that error.   *)
C3_GenericError ==
    \A p \in Procs :
        (Classified(p) /\ OtherStatus(p)
            /\ ~JsonUnmarshal(TradingErrorType, LastOut(p).body).ok) =>
            /\ dr[p].err.kind = "fundamental"
            /\ dr[p].err.code = LastOut(p).status
            /\ dr[p].err.body = LastOut(p).body
            /\ dr[p].isNil
            /\ pc[p] \in {"portfolio", "done"} => result[p].err = dr[p].err

C3_Witness ==
    \E p \in Procs :
        /\ pc[p] = "done"
        /\ Classified(p)
        /\ LastOut(p).status = 500
        /\ LastOut(p).body = BodyHTML
        /\ result[p].err.kind = "fundamental"
        /\ result[p].err.code = 500
        /\ result[p].err.body = BodyHTML

(* C4: every request the transport received carries Authorization: Bearer  *)
(* <token> and Content-Type: application/json, and was built by the        *)
(* newRequest call that precedes the send.                                 *)
C4_HeadersOnEveryRequest ==
    \A p \in Procs :
        /\ \A i \in 1..Len(io[p]) :
              /\ io[p][i].req.header.Authorization = "Bearer " \o config.token
              /\ io[p][i].req.header.ContentType = "application/json"
              /\ io[p][i].req.method # ""
        /\ \A i \in 1..Len(trace[p]) :
              trace[p][i] = "Do" => (i > 1 /\ trace[p][i - 1] = "http.NewRequest")

C4_Witness ==
    \E p \in Procs :
        /\ op[p] = "LimitOrder"
        /\ Len(io[p]) = 1
        /\ io[p][1].req.method = "POST"
        /\ io[p][1].req.header.Authorization = "Bearer t-bob"

(* The messages of the failures of the five layers: request construction,  *)
(* body marshalling, transport send, body read, envelope decode.           *)
LayerFailures ==
    {"can't create http request to %s", "can't marshal request to %s body=%+v",
     "can't do request to %s", "can't read response body to %s",
     "can't unmarshal response to %s, respBody=%s"}

(* C5: the error of every failure of every layer keeps the underlying      *)
(* cause and carries the URL of the call.                                  *)
C5_FailuresWrapCauseAndURL ==
    \A p \in Procs :
        (pc[p] \in {"portfolio", "done"} /\ result[p].err.fmt \in LayerFailures) =>
            /\ result[p].err.cause # ""
            /\ result[p].err.url = path[p]

(* The envelope shape an endpoint documents: an object with a payload      *)
(* field that is an object, an array, or an object holding the named array.*)
MatchesShape(e, j) ==
    /\ j.k = "obj"
    /\ "payload" \in DOMAIN j.o
    /\ LET pl == j.o.payload
           field == CASE e \in InstrumentLists -> "instruments"
                      [] e = "PositionsPortfolio" -> "positions"
                      [] e = "CurrenciesPortfolio" -> "currencies"
                      [] OTHER -> ""
       IN CASE e \in {"SearchInstrumentByFIGI", "LimitOrder"} -> pl.k = "obj"
            [] e \in {"Operations", "Orders"} -> pl.k = "arr"
            [] OTHER -> /\ pl.k = "obj"
                        /\ field \in DOMAIN pl.o
                        /\ pl.o[field].k = "arr"

(* The endpoint method has returned after a status-200 response. *)
Returned200(p) ==
    /\ Classified(p)
    /\ LastOut(p).status = StatusOK
    /\ ep[p] \in PayloadEndpoints

(* C6 as stated: a status-200 body that does not match the endpoint's      *)
(* envelope shape makes the call fail with a decode error that carries the *)
(* URL and the raw body.                                                   *)
C6_MismatchAlwaysFails ==
    \A p \in Procs :
        (Returned200(p) /\ pc[p] \in {"portfolio", "done"}
            /\ ~MatchesShape(ep[p], JSONScan(LastOut(p).body))) =>
            /\ result[p].err.fmt = "can't unmarshal response to %s, respBody=%s"
            /\ result[p].err.url = path[p]
            /\ result[p].err.body = LastOut(p).body

(* C6 amended: a status-200 body that json.Unmarshal rejects (not JSON, or *)
(* a value of the wrong JSON kind for the envelope) makes the call fail    *)
(* with a decode error that wraps the cause and carries the URL and the    *)
(* raw body; a body json.Unmarshal accepts, a missing or null payload or   *)
(* array field included, is returned with a nil error.                     *)
C6_UnmarshalFailureFails ==
    \A p \in Procs :
        (Returned200(p) /\ pc[p] \in {"portfolio", "done"}) =>
            LET u == JsonUnmarshal(ResponseType(ep[p]), LastOut(p).body)
            IN IF u.ok
               THEN /\ result[p].err = Nil
                    /\ (op[p] # "Portfolio" \/ pc[p] = "portfolio") =>
                          result[p].val = Extract(ep[p], u.v)
               ELSE /\ result[p].err.kind = "withMessage"
                    /\ result[p].err.cause # ""
                    /\ result[p].err.fmt = "can't unmarshal response to %s, respBody=%s"
                    /\ result[p].err.url = path[p]
                    /\ result[p].err.body = LastOut(p).body

C6_Witness ==
    \E p \in Procs :
        /\ pc[p] = "done"
        /\ Returned200(p)
        /\ LastOut(p).body = BodyPayloadStr
        /\ result[p].err.kind = "withMessage"
        /\ result[p].err.body = BodyPayloadStr

(* The stages of the pipeline among the library calls of a trace. *)
RECURSIVE Stages(_)
Stages(t) ==
    IF t = <<>> THEN <<>>
    ELSE LET h == Head(t)
             st == CASE h = "http.NewRequest" -> <<"build">>
                     [] h = "Do" -> <<"send">>
                     [] h = "switch" -> <<"classify">>
                     [] h = "json.Unmarshal(response)" -> <<"decode">>
                     [] OTHER -> <<>>
         IN st \o Stages(Tail(t))
IsPrefix(a, b) == Len(a) <= Len(b) /\ a = SubSeq(b, 1, Len(a))
OnePass == <<"build", "send", "classify", "decode">>

(* A decode happens only right after doRequest returned a body. *)
DecodeAfterSuccess(p) ==
    (Len(trace[p]) > 0 /\ trace[p][Len(trace[p])] = "json.Unmarshal(response)") =>
        (dr[p].err = Nil /\ ~dr[p].isNil)

(* C7 as stated: every public method is one pass build, send, classify,    *)
(* decode with at most one outbound request.                               *)
C7_SinglePassEveryOp ==
    \A p \in Procs :
        /\ Len(io[p]) <= 1
        /\ IsPrefix(Stages(trace[p]), OnePass)

(* C7 amended: every public method other than Portfolio is one pass build, *)
(* send, classify, decode with at most one outbound request; Portfolio is  *)
(* two such passes in a row with at most two requests; no request is sent  *)
(* again, a request is sent only when built, and an envelope is decoded    *)
(* only after doRequest returned a body.                                   *)
C7_SinglePassButPortfolio ==
    \A p \in Procs :
        /\ op[p] # "Portfolio" =>
              /\ Len(io[p]) <= 1
              /\ IsPrefix(Stages(trace[p]), OnePass)
        /\ op[p] = "Portfolio" =>
              /\ Len(io[p]) <= 2
              /\ IsPrefix(Stages(trace[p]), OnePass \o OnePass)
        /\ \A i \in 1..Len(io[p]) : io[p][i].req # NoReq
        /\ DecodeAfterSuccess(p)

C7_Witness ==
    \E p \in Procs :
        /\ op[p] = "Orders"
        /\ pc[p] = "done"
        /\ Stages(trace[p]) = OnePass
        /\ Len(io[p]) = 1

(* The answers a goroutine received during its call. *)
Outs(p) == [i \in 1..Len(io[p]) |-> io[p][i].out]

SameInputsSameResult ==
    \A p, q \in Procs :
        (/\ pc[p] = "done" /\ pc[q] = "done"
         /\ op[p] = op[q] /\ arg[p] = arg[q]
         /\ Outs(p) = Outs(q)) => result[p] = result[q]

(* C8: under any interleaving of calls on one client the configuration is  *)
(* never modified, every request is built from it, and two calls with the  *)
(* same arguments and the same responses have the same outcome.            *)
C8_ConfigImmutableCallsIndependent ==
    /\ [][config' = config]_vars
    /\ [](SameInputsSameResult)
    /\ [](\A p \in Procs : \A i \in 1..Len(io[p]) :
            io[p][i].req.header = RequestHeader(config.token))

C8_Witness ==
    \E p, q \in Procs :
        /\ p # q
        /\ pc[p] = "done" /\ pc[q] = "done"
        /\ op[p] = "Portfolio" /\ op[q] = "Portfolio"
        /\ Len(io[p]) = 2
        /\ Outs(p) = Outs(q)
        /\ result[p] = result[q]

(* C9: a response body is open only inside doRequest, between the send and *)
(* the return: it is closed after a failed read, and after the switch for  *)
(* every status.                                                           *)
C9_BodyClosedOnReturn ==
    \A p \in Procs :
        /\ open[p] => pc[p] \in {"readAll", "classify"}
        /\ pc[p] \in {"readAll", "classify"} => open[p]

C9_Witness ==
    \E p \in Procs :
        /\ pc[p] = "decode"
        /\ Len(io[p]) > 0
        /\ LastOut(p).readerr # ""
        /\ ~open[p]

(* Portfolio's requests, in order, and what it returns. *)
C10_States ==
    \A p \in Procs :
        op[p] = "Portfolio" =>
            /\ Len(io[p]) <= 2
            /\ Len(io[p]) >= 1 =>
                  /\ io[p][1].req.method = "GET"
                  /\ io[p][1].req.url.String = config.apiURL \o "/portfolio"
            /\ Len(io[p]) = 2 =>
                  /\ io[p][2].req.method = "GET"
                  /\ io[p][2].req.url.String = config.apiURL \o "/portfolio/currencies"
                  /\ io[p][1].out.neterr = "" /\ io[p][1].out.readerr = ""
                  /\ io[p][1].out.status = StatusOK
                  /\ JsonUnmarshal(ResponseType("PositionsPortfolio"), io[p][1].out.body).ok
            /\ (pc[p] = "done" /\ result[p].err # Nil) => result[p].val = ZeroPortfolio
            /\ (pc[p] = "done" /\ result[p].err = Nil) =>
                  /\ Len(io[p]) = 2
                  /\ result[p].val.Positions = positions[p]
                  /\ result[p].val.Currencies =
                        Extract("CurrenciesPortfolio",
                                JsonUnmarshal(ResponseType("CurrenciesPortfolio"),
                                              io[p][2].out.body).v)

(* Portfolio's return after a failed sub-call keeps that sub-call's error. *)
C10_ForwardsError ==
    \A p \in Procs :
        (/\ op[p] = "Portfolio" /\ pc[p] = "portfolio" /\ result[p].err # Nil
         /\ pc'[p] # pc[p]) =>
            (pc'[p] = "done" /\ result'[p].err = result[p].err)

(* C10: Portfolio requests GET /portfolio first and GET                     *)
(* /portfolio/currencies second, the second only after the first returned  *)
(* its positions without error; when either fails Portfolio returns that   *)
(* error with the empty Portfolio, and otherwise both lists.               *)
C10_PortfolioOrder == []C10_States /\ [][C10_ForwardsError]_vars

C10_Witness ==
    \E p \in Procs :
        /\ op[p] = "Portfolio"
        /\ pc[p] = "done"
        /\ Len(io[p]) = 2
        /\ io[p][1].out.body = BodyPositions
        /\ result[p].err # Nil
        /\ result[p].val = ZeroPortfolio

====
